---- MODULE Spec2Model ----
(***************************************************************************)
(* Lead scraping route (src/app/api/scrape/route.ts): the POST handler,    *)
(* its two search adapters (scrapeFromDuckDuckGo, scrapeFromBing) and the  *)
(* synthetic generator (generateDemoLeads).                                *)
(*                                                                         *)
(* JavaScript strings are sequences of one-character strings, so that      *)
(* trim, toLowerCase, replace, startsWith, includes and the two regular    *)
(* expressions are computed character by character.  The JavaScript values *)
(* undefined/null and a number are the one-element sequences Undefined and *)
(* Num7, which no string equals.                                           *)
(***************************************************************************)
EXTENDS Integers, Sequences, FiniteSets, TLC

VARIABLES pc, req, fetches, calls, html, duckduckgoLeads, bingLeads, demoLeads, leads, response

vars == <<pc, req, fetches, calls, html, duckduckgoLeads, bingLeads, demoLeads, leads, response>>

---------------------------------------------------------------------------
(* Bounds of the model. *)

\* longest result page an adapter reads (one more than the larger cap)
MaxNodes == 21

\* Math.random() returns k / RandDen for k in 0 .. RandDen-1
RandDen == 8

\* a page with repeated links repeats them with this period
UrlPeriod == 3

\* a page with broken results has one at every HolePeriod-th node
HolePeriod == 3

\* snippets of the contact-inference specification are built of at most
\* this many fragments
MaxFrags == 2

(* Constants of the program. *)

DdgCap == 20

BingCap == 15

BingThreshold == 10

DemoThreshold == 5

OutputCap == 25

DemoMax == 15

DemoRange == 8

DemoBase == 8

---------------------------------------------------------------------------
(* JavaScript values and strings. *)

Undefined == <<"<undefined>">>

Num7 == <<"<number 7>">>

IsString(v) == v # Undefined /\ v # Num7

\* ToBoolean: undefined and "" are falsy, a non-zero number is truthy
Truthy(v) == v # Undefined /\ v # <<>>

\* a || b
JsOr(a, b) == IF Truthy(a) THEN a ELSE b

\* `${v}` for the values of the model
ToStr(v) == IF v = Num7 THEN <<"7">> ELSE IF v = Undefined THEN <<"u","n","d","e","f","i","n","e","d">> ELSE v

WhiteSpace == {" ", "\t", "\n"}

Digits == <<"0","1","2","3","4","5","6","7","8","9">>

Lowers == <<"a","b","c","d","e","f","g","h","i","j","k","l","m","n","o","p","q","r","s","t","u","v","w","x","y","z">>

Uppers == <<"A","B","C","D","E","F","G","H","I","J","K","L","M","N","O","P","Q","R","S","T","U","V","W","X","Y","Z">>

Range(s) == {s[i] : i \in DOMAIN s}

Digit == Range(Digits)

\* \w
WordChar == Range(Lowers) \cup Range(Uppers) \cup Digit \cup {"_"}

\* [\w.-]
EmailChar == WordChar \cup {".", "-"}

\* [-.\s]
PhoneSep == WhiteSpace \cup {"-", "."}

LowerChar(c) ==
  IF c \in Range(Uppers)
    THEN Lowers[CHOOSE i \in DOMAIN Uppers : Uppers[i] = c]
    ELSE c

ToLowerCase(s) == [i \in DOMAIN s |-> LowerChar(s[i])]

Trim(s) ==
  LET keep == {i \in DOMAIN s : s[i] \notin WhiteSpace}
  IN  IF keep = {} THEN <<>>
      ELSE SubSeq(s, CHOOSE i \in keep : \A j \in keep : i <= j,
                     CHOOSE i \in keep : \A j \in keep : j <= i)

StartsWith(s, p) == Len(s) >= Len(p) /\ SubSeq(s, 1, Len(p)) = p

Includes(s, k) ==
  \E i \in 0 .. (Len(s) - Len(k)) : SubSeq(s, i + 1, i + Len(k)) = k

RECURSIVE ReplaceWsRuns(_)
\* s.replace(/\s+/g, '-')
ReplaceWsRuns(s) ==
  IF s = <<>> THEN <<>>
  ELSE IF s[1] \in WhiteSpace
    THEN IF Len(s) > 1 /\ s[2] \in WhiteSpace
           THEN ReplaceWsRuns(Tail(s))
           ELSE <<"-">> \o ReplaceWsRuns(Tail(s))
    ELSE <<s[1]>> \o ReplaceWsRuns(Tail(s))

\* s.replace(/[^a-z0-9]/g, '')
StripNonAlnum(s) == SelectSeq(s, LAMBDA c : c \in Range(Lowers) \cup Digit)

\* String(n) for 0 <= n < 100
IntToStr(n) ==
  IF n < 10 THEN <<Digits[n + 1]>>
  ELSE <<Digits[(n \div 10) + 1], Digits[(n % 10) + 1]>>

---------------------------------------------------------------------------
(* The two regular expressions of the adapters, as String.prototype.match  *)
(* runs them: leftmost start, greedy quantifiers, backtracking.            *)

\* last index of the longest run of characters of cls that starts at i
\* (i - 1 when s[i] is not in cls)
RunEnd(s, i, cls) ==
  LET stops == {j \in i .. Len(s) : s[j] \notin cls}
  IN  IF stops = {} THEN Len(s)
      ELSE (CHOOSE j \in stops : \A k \in stops : j <= k) - 1

\* /[\w.-]+@[\w.-]+\.\w+/ anchored at i: the index of the match's last
\* character, or 0
EmailEndAt(s, i) ==
  LET e1 == RunEnd(s, i, EmailChar)
      at == e1 + 1
      e2 == RunEnd(s, at + 1, EmailChar)
      dots == {p \in (at + 2) .. e2 :
                 s[p] = "." /\ p + 1 <= Len(s) /\ s[p + 1] \in WordChar}
      dot == CHOOSE p \in dots : \A q \in dots : q <= p
  IN  IF e1 < i \/ at > Len(s) THEN 0
      ELSE IF s[at] # "@" THEN 0
      ELSE IF dots = {} THEN 0
      ELSE RunEnd(s, dot + 1, WordChar)

IsDigitAt(s, p) == p >= 1 /\ p <= Len(s) /\ s[p] \in Digit

IsCharAt(s, p, cls) == p >= 1 /\ p <= Len(s) /\ s[p] \in cls

\* /\(?\d{3}\)?[-.\s]?\d{3}[-.\s]?\d{4}/ anchored at i: the index of the
\* match's last character, or 0
PhoneEndAt(s, i) ==
  LET p1 == IF IsCharAt(s, i, {"("}) THEN i + 1 ELSE i
      p2 == p1 + 3
      p3 == IF IsCharAt(s, p2, {")"}) THEN p2 + 1 ELSE p2
      p4 == IF IsCharAt(s, p3, PhoneSep) THEN p3 + 1 ELSE p3
      p5 == p4 + 3
      p6 == IF IsCharAt(s, p5, PhoneSep) THEN p5 + 1 ELSE p5
  IN  IF /\ \A d \in 0 .. 2 : IsDigitAt(s, p1 + d)
         /\ \A d \in 0 .. 2 : IsDigitAt(s, p4 + d)
         /\ \A d \in 0 .. 3 : IsDigitAt(s, p6 + d)
        THEN p6 + 3
        ELSE 0

\* snippet.match(/[\w.-]+@[\w.-]+\.\w+/)?.[0]
EmailMatch(s) ==
  LET starts == {i \in DOMAIN s : EmailEndAt(s, i) > 0}
      first == CHOOSE i \in starts : \A j \in starts : i <= j
  IN  IF starts = {} THEN Undefined ELSE SubSeq(s, first, EmailEndAt(s, first))

\* snippet.match(/\(?\d{3}\)?[-.\s]?\d{3}[-.\s]?\d{4}/)?.[0]
PhoneMatch(s) ==
  LET starts == {i \in DOMAIN s : PhoneEndAt(s, i) > 0}
      first == CHOOSE i \in starts : \A j \in starts : i <= j
  IN  IF starts = {} THEN Undefined ELSE SubSeq(s, first, PhoneEndAt(s, first))

InferContactPhoneFirst(snippet) == JsOr(PhoneMatch(snippet), EmailMatch(snippet))

\* emailMatch?.[0] || phoneMatch?.[0]
InferContact(snippet) == JsOr(EmailMatch(snippet), PhoneMatch(snippet))

---------------------------------------------------------------------------
(* The result pages an adapter may read.  A page is the sequence of its    *)
(* result nodes (.result / .b_algo) in document order; a node holds the    *)
(* text of its title link, the link's href attribute (Undefined when the   *)
(* attribute or the link is missing) and the text of its snippet.          *)

PageSnippets ==
  << <<>>,
     <<" ","C","a","l","l"," ","(","5","5","5",")"," ","1","2","3","-","4","5","6","7"," ","n","o","w"," ">>,
     <<"C","o","n","t","a","c","t"," ","u","s"," ","a","t"," ","s","a","l","e","s","@","e","x","a","m","p","l","e",".","c","o","m"," ","t","o","d","a","y">>,
     <<"O","p","e","n"," ","d","a","i","l","y">>,
     <<"5","5","5","-","1","2","3","-","4","5","6","7"," ","o","r"," ","a","@","b",".","c","o">> >>

\* node i of a page; dup: links repeat with period UrlPeriod and carry a
\* scheme; holes: every HolePeriod-th node lacks a title or a link
NodeAt(i, dup, holes) ==
  LET hole == holes /\ i % HolePeriod = 0
      kind == (i \div HolePeriod) % 3
  IN  [ title   |-> IF hole /\ kind = 1 THEN <<" "," ">>
                    ELSE <<" ","B","i","z">> \o IntToStr(i) \o <<" ">>,
        href    |-> IF hole /\ kind = 0 THEN Undefined
                    ELSE IF hole /\ kind = 2 THEN <<>>
                    ELSE IF dup THEN <<"h","t","t","p",":","/","/","d">> \o IntToStr(i % UrlPeriod) \o <<".","c","o">>
                    ELSE <<"s">> \o IntToStr(i) \o <<".","c","o">>,
        snippet |-> PageSnippets[(i % Len(PageSnippets)) + 1] ]

PageOf(n, dup, holes) == [i \in 1 .. n |-> NodeAt(i, dup, holes)]

Pages == {PageOf(n, dup, holes) : n \in 0 .. MaxNodes, dup \in BOOLEAN, holes \in BOOLEAN}

---------------------------------------------------------------------------
(* Record extraction of the two adapters. *)

NoDescription == <<"N","o"," ","d","e","s","c","r","i","p","t","i","o","n"," ","a","v","a","i","l","a","b","l","e">>

DdgAdmitsAll(node) == TRUE

\* line 42: title && url
DdgAdmits(node) == Truthy(Trim(node.title)) /\ Truthy(JsOr(node.href, <<>>))

\* line 142: title && url
BingAdmits(node) == Truthy(Trim(node.title)) /\ Truthy(JsOr(node.href, <<>>))

\* lines 38-52: the lead of an admitted node
DdgLeadOf(node) ==
  LET title == Trim(node.title)
      url == JsOr(node.href, <<>>)
      snippet == Trim(node.snippet)
  IN  [ name        |-> title,
        url         |-> IF StartsWith(url, <<"h","t","t","p">>) THEN url ELSE <<"h","t","t","p","s",":","/","/">> \o url,
        description |-> JsOr(snippet, NoDescription),
        contact     |-> InferContact(snippet) ]

\* lines 138-151: the lead of an admitted node
BingLeadOf(node) ==
  LET title == Trim(node.title)
      url == JsOr(node.href, <<>>)
      snippet == Trim(node.snippet)
  IN  [ name        |-> title,
        url         |-> url,
        description |-> JsOr(snippet, NoDescription),
        contact     |-> InferContact(snippet) ]

Min(a, b) == IF a < b THEN a ELSE b

\* lines 32-56: the admitted nodes among the first DdgCap, in document order
ExtractDdg(page) ==
  LET kept == SelectSeq(SubSeq(page, 1, Min(Len(page), DdgCap)), DdgAdmits)
  IN  [i \in DOMAIN kept |-> DdgLeadOf(kept[i])]

ExtractBingUncapped(page) ==
  LET kept == SelectSeq(page, BingAdmits)
  IN  [i \in DOMAIN kept |-> BingLeadOf(kept[i])]

\* lines 132-155: the admitted nodes among the first BingCap, in document order
ExtractBing(page) ==
  LET kept == SelectSeq(SubSeq(page, 1, Min(Len(page), BingCap)), BingAdmits)
  IN  [i \in DOMAIN kept |-> BingLeadOf(kept[i])]

\* the search query of both adapters, lines 14-16 and 114-116
QueryOf(industry, location) ==
  IF Truthy(location) THEN ToStr(industry) \o <<" ","i","n"," ">> \o ToStr(location)
  ELSE ToStr(industry)

---------------------------------------------------------------------------
(* The synthetic generator. *)

PatternKeys == << <<"r","e","s","t","a","u","r","a","n","t">>, <<"d","e","n","t","i","s","t">>, <<"l","a","w","y","e","r">>, <<"r","e","a","l","t","o","r">>, <<"p","l","u","m","b","e","r">>, <<"s","a","l","o","n">>, <<"g","y","m">>, <<"h","o","t","e","l">>, <<"d","e","f","a","u","l","t">> >>

PatternValues ==
  << << <<"B","i","s","t","r","o">>, <<"C","a","f","e">>, <<"G","r","i","l","l">>, <<"K","i","t","c","h","e","n">>, <<"D","i","n","e","r">>, <<"E","a","t","e","r","y">> >>,
     << <<"D","e","n","t","a","l"," ","C","a","r","e">>, <<"D","e","n","t","i","s","t","r","y">>, <<"D","e","n","t","a","l"," ","C","l","i","n","i","c">>, <<"D","e","n","t","a","l"," ","A","s","s","o","c","i","a","t","e","s">> >>,
     << <<"L","a","w"," ","F","i","r","m">>, <<"L","e","g","a","l"," ","S","e","r","v","i","c","e","s">>, <<"A","t","t","o","r","n","e","y">>, <<"L","e","g","a","l"," ","G","r","o","u","p">> >>,
     << <<"R","e","a","l"," ","E","s","t","a","t","e">>, <<"R","e","a","l","t","y">>, <<"P","r","o","p","e","r","t","i","e","s">>, <<"R","e","a","l"," ","E","s","t","a","t","e"," ","G","r","o","u","p">> >>,
     << <<"P","l","u","m","b","i","n","g">>, <<"P","l","u","m","b","i","n","g"," ","S","e","r","v","i","c","e","s">>, <<"P","l","u","m","b","i","n","g"," ","S","o","l","u","t","i","o","n","s">> >>,
     << <<"H","a","i","r"," ","S","a","l","o","n">>, <<"B","e","a","u","t","y"," ","S","a","l","o","n">>, <<"S","p","a">>, <<"B","e","a","u","t","y"," ","B","a","r">> >>,
     << <<"F","i","t","n","e","s","s"," ","C","e","n","t","e","r">>, <<"G","y","m">>, <<"H","e","a","l","t","h"," ","C","l","u","b">>, <<"F","i","t","n","e","s","s"," ","S","t","u","d","i","o">> >>,
     << <<"H","o","t","e","l">>, <<"I","n","n">>, <<"R","e","s","o","r","t">>, <<"L","o","d","g","e">> >>,
     << <<"B","u","s","i","n","e","s","s">>, <<"C","o","m","p","a","n","y">>, <<"S","e","r","v","i","c","e","s">>, <<"S","o","l","u","t","i","o","n","s">>, <<"G","r","o","u","p">> >> >>

SurNames == << <<"S","m","i","t","h">>, <<"J","o","h","n","s","o","n">>, <<"W","i","l","l","i","a","m","s">>, <<"B","r","o","w","n">>, <<"J","o","n","e","s">>, <<"G","a","r","c","i","a">>, <<"M","i","l","l","e","r">>, <<"D","a","v","i","s">>, <<"R","o","d","r","i","g","u","e","z">>, <<"M","a","r","t","i","n","e","z">> >>

GenericLocations == << <<"D","o","w","n","t","o","w","n">>, <<"C","e","n","t","r","a","l">>, <<"N","o","r","t","h">>, <<"S","o","u","t","h">>, <<"E","a","s","t">>, <<"W","e","s","t">> >>

\* lines 81-87: the first key the lower-cased industry includes, else default
PatternFor(industry) ==
  LET hits == {k \in DOMAIN PatternKeys : Includes(ToLowerCase(industry), PatternKeys[k])}
  IN  IF hits = {} THEN PatternValues[Len(PatternValues)]
      ELSE PatternValues[CHOOSE k \in hits : \A j \in hits : k <= j]

\* the random source: the k-th call of Math.random() returns
\* Rand(seed, k) / RandDen
Seeds == [start : 0 .. (RandDen - 1), step : {0, 3}]

Rand(seed, k) == (seed.start + k * seed.step) % RandDen

\* Math.floor(Math.random() * m) at call k
RandBelow(seed, k, m) == (Rand(seed, k) * m) \div RandDen

NumLeadsFromZero(seed) == Min(DemoMax, RandBelow(seed, 0, DemoRange))

\* line 90
NumLeads(seed) == Min(DemoMax, RandBelow(seed, 0, DemoRange) + DemoBase)

\* lines 93-105, i counted from 0 as in the loop
DemoLead(industry, location, seed, i) ==
  LET pattern == PatternFor(industry)
      locations == IF Truthy(location) THEN <<location>> ELSE GenericLocations
      randomName == SurNames[RandBelow(seed, 4 * i + 1, Len(SurNames)) + 1]
      randomPattern == pattern[RandBelow(seed, 4 * i + 2, Len(pattern)) + 1]
      randomLocation == locations[RandBelow(seed, 4 * i + 3, Len(locations)) + 1]
      businessName == randomName \o <<"'","s"," ">> \o randomPattern
      hasContact == 2 * Rand(seed, 4 * i + 4) > RandDen
  IN  [ name        |-> businessName,
        url         |-> <<"h","t","t","p","s",":","/","/","e","x","a","m","p","l","e","-">> \o ReplaceWsRuns(ToLowerCase(industry))
                          \o <<"-">> \o IntToStr(i) \o <<".","c","o","m">>,
        description |-> <<"P","r","o","f","e","s","s","i","o","n","a","l"," ">> \o industry \o <<" ","s","e","r","v","i","c","e","s"," ","i","n"," ">>
                          \o ToStr(randomLocation) \o <<"."," ">>
                          \o (IF hasContact THEN <<"C","o","n","t","a","c","t"," ","a","v","a","i","l","a","b","l","e"," ","f","o","r"," ","i","n","q","u","i","r","i","e","s",".">>
                              ELSE <<"S","e","r","v","i","n","g"," ","t","h","e"," ","l","o","c","a","l"," ","c","o","m","m","u","n","i","t","y"," ","w","i","t","h"," ","q","u","a","l","i","t","y"," ","s","e","r","v","i","c","e",".">>),
        contact     |-> IF hasContact
                          THEN <<"c","o","n","t","a","c","t","@">> \o StripNonAlnum(ToLowerCase(businessName)) \o <<".","c","o","m">>
                          ELSE Undefined ]

\* lines 64-109, for a string industry
generateDemoLeads(industry, location, seed) ==
  [k \in 1 .. NumLeads(seed) |-> DemoLead(industry, location, seed, k - 1)]

---------------------------------------------------------------------------
(* Deduplication: Array.from(new Map(leads.map(l => [l.url, l])).values()). *)
(* A Map keeps its keys in the order of their first insertion; setting a   *)
(* key it holds replaces the value in place.                                *)

MapSetKeepFirst(m, k, v) ==
  IF \E i \in DOMAIN m : m[i].key = k THEN m
  ELSE Append(m, [key |-> k, value |-> v])

\* Map.prototype.set
MapSet(m, k, v) ==
  IF \E i \in DOMAIN m : m[i].key = k
    THEN [i \in DOMAIN m |-> IF m[i].key = k THEN [key |-> k, value |-> v] ELSE m[i]]
    ELSE Append(m, [key |-> k, value |-> v])

RECURSIVE MapOfEntries(_, _)
\* new Map(entries), from the map m built so far
MapOfEntries(entries, m) ==
  IF entries = <<>> THEN m
  ELSE MapOfEntries(Tail(entries), MapSet(m, Head(entries).url, Head(entries)))

\* line 195-197
UniqueLeads(ls) ==
  LET m == MapOfEntries(ls, <<>>)
  IN  [i \in DOMAIN m |-> m[i].value]

\* s.slice(0, n)
Slice(s, n) == SubSeq(s, 1, Min(Len(s), n))

---------------------------------------------------------------------------
(* The POST handler.  pc is the await the handler or the adapter it called *)
(* is suspended at.                                                        *)

NoRequest == [json |-> FALSE, industry |-> Undefined, location |-> Undefined]

NoResponse == [status |-> 0, error |-> "", leads |-> <<>>, source |-> ""]

\* the request bodies: one that is not JSON, and parsed objects
Bodies ==
  { [json |-> FALSE, industry |-> Undefined, location |-> Undefined],
    [json |-> TRUE, industry |-> Undefined, location |-> <<"P","a","r","i","s">>],
    [json |-> TRUE, industry |-> <<>>, location |-> <<>>],
    [json |-> TRUE, industry |-> <<" "," ">>, location |-> Undefined],
    [json |-> TRUE, industry |-> <<"r","e","s","t","a","u","r","a","n","t">>, location |-> <<>>],
    [json |-> TRUE, industry |-> <<"H","a","i","r"," ","\t","S","a","l","o","n">>, location |-> <<"P","a","r","i","s">>],
    [json |-> TRUE, industry |-> Num7, location |-> <<>>] }

ErrorResponse(code, message) ==
  [status |-> code, error |-> message, leads |-> <<>>, source |-> ""]

\* line 201
SourceOf(uniqueLeads) == IF Len(uniqueLeads) > 0 THEN "web_scraping" ELSE "demo"

\* lines 194-202
SuccessResponse(ls) ==
  LET uniqueLeads == UniqueLeads(ls)
  IN  [status |-> 200, error |-> "",
       leads |-> Slice(uniqueLeads, OutputCap),
       source |-> SourceOf(uniqueLeads)]

NeedsBingInclusive(ls) == Len(ls) <= BingThreshold

\* line 183
NeedsBing(ls) == Len(ls) < BingThreshold

NeedsDemoWhenEmpty(ls) == Len(ls) = 0

\* line 189
NeedsDemo(ls) == Len(ls) < DemoThreshold

\* line 166: !industry
IndustryMissing(industry) == ~Truthy(industry)

Init ==
  /\ pc = "idle"
  /\ req = NoRequest
  /\ fetches = <<>>
  /\ calls = <<>>
  /\ html = <<>>
  /\ duckduckgoLeads = <<>>
  /\ bingLeads = <<>>
  /\ demoLeads = <<>>
  /\ leads = <<>>
  /\ response = NoResponse

\* lines 163-177 and 13-24: the body is read and validated, and the first
\* adapter sends its request
PostReceive ==
  /\ pc = "idle"
  /\ \E body \in Bodies :
       /\ req' = body
       /\ IF ~body.json
            THEN /\ response' = ErrorResponse(500, "Unexpected token in JSON")
                 /\ pc' = "done"
                 /\ UNCHANGED <<fetches, calls>>
          ELSE IF IndustryMissing(body.industry)
            THEN /\ response' = ErrorResponse(400, "Industry is required")
                 /\ pc' = "done"
                 /\ UNCHANGED <<fetches, calls>>
          ELSE /\ calls' = Append(calls, "ddg_call")
               /\ fetches' = Append(fetches,
                    [host |-> "html.duckduckgo.com",
                     query |-> QueryOf(body.industry, JsOr(body.location, <<>>))])
               /\ pc' = "ddg_fetch"
               /\ UNCHANGED response
  /\ UNCHANGED <<html, duckduckgoLeads, bingLeads, demoLeads, leads>>

DdgCatchRethrows ==
  /\ calls' = Append(calls, "ddg_error")
  /\ response' = ErrorResponse(500, "Failed to fetch search results")
  /\ pc' = "done"
  /\ UNCHANGED <<req, fetches, html, duckduckgoLeads, bingLeads, demoLeads, leads>>

\* lines 57-60: whatever is thrown in the adapter is logged and [] returned
DdgCatch ==
  /\ calls' = calls \o <<"ddg_error", "ddg_ret">>
  /\ duckduckgoLeads' = <<>>
  /\ pc' = "ddg_returned"
  /\ UNCHANGED <<req, fetches, html, bingLeads, demoLeads, leads, response>>

\* lines 20-28: fetch rejects, or the status is not a success (line 27
\* throws), or the response arrives
DdgFetchSettles ==
  /\ pc = "ddg_fetch"
  /\ \E outcome \in {"rejected", "not_ok", "ok"} :
       IF outcome = "ok"
         THEN /\ pc' = "ddg_text"
              /\ UNCHANGED <<req, fetches, calls, html, duckduckgoLeads, bingLeads, demoLeads, leads, response>>
         ELSE DdgCatch

\* lines 30-56: reading or parsing the body throws, or the page is read
\* and its leads are returned
DdgBodySettles ==
  /\ pc = "ddg_text"
  /\ \/ DdgCatch
     \/ \E page \in Pages :
          /\ html' = page
          /\ duckduckgoLeads' = ExtractDdg(page)
          /\ calls' = Append(calls, "ddg_ret")
          /\ pc' = "ddg_returned"
          /\ UNCHANGED <<req, fetches, bingLeads, demoLeads, leads, response>>

\* lines 188-202, and 204-209 when the generator throws on an industry
\* that is no string (line 83)
Finish(ls) ==
  IF NeedsDemo(ls)
    THEN IF IsString(req.industry)
      THEN \E seed \in Seeds :
             /\ demoLeads' = generateDemoLeads(req.industry, JsOr(req.location, <<>>), seed)
             /\ leads' = ls \o demoLeads'
             /\ calls' = calls \o <<"demo_call", "demo_ret">>
             /\ response' = SuccessResponse(leads')
             /\ pc' = "done"
      ELSE /\ leads' = ls
           /\ calls' = calls \o <<"demo_call", "demo_throw">>
           /\ response' = ErrorResponse(500, "industry.toLowerCase is not a function")
           /\ pc' = "done"
           /\ UNCHANGED demoLeads
    ELSE /\ leads' = ls
         /\ response' = SuccessResponse(ls)
         /\ pc' = "done"
         /\ UNCHANGED <<demoLeads, calls>>

\* lines 177-184: the first adapter has returned; the second is called when
\* fewer than BingThreshold leads are held
PostAfterDdg ==
  /\ pc = "ddg_returned"
  /\ LET ls == IF Len(duckduckgoLeads) > 0 THEN leads \o duckduckgoLeads ELSE leads
     IN  IF NeedsBing(ls)
           THEN /\ leads' = ls
                /\ calls' = Append(calls, "bing_call")
                /\ fetches' = Append(fetches,
                     [host |-> "www.bing.com",
                      query |-> QueryOf(req.industry, JsOr(req.location, <<>>))])
                /\ pc' = "bing_fetch"
                /\ UNCHANGED <<demoLeads, response>>
           ELSE /\ Finish(ls)
                /\ UNCHANGED fetches
  /\ UNCHANGED <<req, html, duckduckgoLeads, bingLeads>>

\* lines 156-159: whatever is thrown in the adapter is logged and [] returned
BingCatch ==
  /\ calls' = calls \o <<"bing_error", "bing_ret">>
  /\ bingLeads' = <<>>
  /\ pc' = "bing_returned"
  /\ UNCHANGED <<req, fetches, html, duckduckgoLeads, demoLeads, leads, response>>

\* lines 120-128
BingFetchSettles ==
  /\ pc = "bing_fetch"
  /\ \E outcome \in {"rejected", "not_ok", "ok"} :
       IF outcome = "ok"
         THEN /\ pc' = "bing_text"
              /\ UNCHANGED <<req, fetches, calls, html, duckduckgoLeads, bingLeads, demoLeads, leads, response>>
         ELSE BingCatch

\* lines 130-155
BingBodySettles ==
  /\ pc = "bing_text"
  /\ \/ BingCatch
     \/ \E page \in Pages :
          /\ html' = page
          /\ bingLeads' = ExtractBing(page)
          /\ calls' = Append(calls, "bing_ret")
          /\ pc' = "bing_returned"
          /\ UNCHANGED <<req, fetches, duckduckgoLeads, demoLeads, leads, response>>

\* lines 184-202: the second adapter has returned
PostAfterBing ==
  /\ pc = "bing_returned"
  /\ Finish(leads \o bingLeads)
  /\ UNCHANGED <<req, fetches, html, duckduckgoLeads, bingLeads>>

Next ==
  \/ PostReceive
  \/ DdgFetchSettles
  \/ DdgBodySettles
  \/ PostAfterDdg
  \/ BingFetchSettles
  \/ BingBodySettles
  \/ PostAfterBing

Spec == Init /\ [][Next]_vars

---------------------------------------------------------------------------
(* Contact inference on its own: one result node whose snippet is drawn    *)
(* from a set of texts, extracted by either adapter.                       *)

Frags ==
  << <<"C","a","l","l"," ">>,
     <<"(","5","5","5",")"," ","1","2","3","-","4","5","6","7">>,
     <<"5","5","5"," ","1","2","3","4">>,
     <<"s","a","l","e","s","@","e","x","a","m","p","l","e",".","c","o","m">>,
     <<"a","@","b">>,
     <<".","c","o"," ">>,
     <<" ","8","0","0",".","5","5","5",".","0","1","9","9","x">>,
     <<"@">> >>

RECURSIVE ConcatFrags(_)
ConcatFrags(ix) ==
  IF ix = <<>> THEN <<>> ELSE Frags[Head(ix)] \o ConcatFrags(Tail(ix))

InferSnippets ==
  {ConcatFrags(ix) : ix \in UNION {[1 .. n -> DOMAIN Frags] : n \in 0 .. MaxFrags}}
    \cup { <<"C","o","n","t","a","c","t"," ","u","s"," ","a","t"," ","s","a","l","e","s","@","e","x","a","m","p","l","e",".","c","o","m"," ","t","o","d","a","y">>,
           <<"C","a","l","l"," ","(","5","5","5",")"," ","1","2","3","-","4","5","6","7"," ","n","o","w">>,
           <<"F","a","m","i","l","y"," ","o","w","n","e","d"," ","s","i","n","c","e"," ","1","9","8","7">> }

InitInfer ==
  /\ pc = "infer"
  /\ html \in {<<[title |-> <<"A","c","m","e">>, href |-> <<"h","t","t","p",":","/","/","a","c","m","e",".","c","o">>, snippet |-> s]>> :
                 s \in InferSnippets}
  /\ req = NoRequest
  /\ fetches = <<>>
  /\ calls = <<>>
  /\ duckduckgoLeads = <<>>
  /\ bingLeads = <<>>
  /\ demoLeads = <<>>
  /\ leads = <<>>
  /\ response = NoResponse

\* lines 34-54 on the page
InferDdg ==
  /\ pc = "infer"
  /\ duckduckgoLeads' = ExtractDdg(html)
  /\ pc' = "inferred_ddg"
  /\ UNCHANGED <<req, fetches, calls, html, bingLeads, demoLeads, leads, response>>

\* lines 134-153 on the page
InferBing ==
  /\ pc = "infer"
  /\ bingLeads' = ExtractBing(html)
  /\ pc' = "inferred_bing"
  /\ UNCHANGED <<req, fetches, calls, html, duckduckgoLeads, demoLeads, leads, response>>

NextInfer == InferDdg \/ InferBing

SpecInfer == InitInfer /\ [][NextInfer]_vars

---------------------------------------------------------------------------
(* The claims. *)

Called(event) == \E i \in DOMAIN calls : calls[i] = event

Urls(ls) == {ls[i].url : i \in DOMAIN ls}

\* the request ran past validation
Ran == Called("ddg_call")

Succeeded == pc = "done" /\ response.status = 200

\* C1: a request whose industry is empty or only whitespace ends with
\* 400 "Industry is required" and causes no outbound fetch.
C1_BlankIndustryRejected ==
  (pc # "idle" /\ req.json /\ IsString(req.industry) /\ Trim(req.industry) = <<>>)
    => /\ fetches = <<>>
       /\ pc = "done"
       /\ response.status = 400
       /\ response.error = "Industry is required"

\* C2: a successful run returns at most 25 leads, each with a non-empty
\* name and a non-empty url.
C2_LeadsBoundedAndNamed ==
  Succeeded =>
    /\ Len(response.leads) <= 25
    /\ \A i \in DOMAIN response.leads :
         /\ IsString(response.leads[i].name) /\ response.leads[i].name # <<>>
         /\ IsString(response.leads[i].url) /\ response.leads[i].url # <<>>

\* a successful run that read a page with a node lacking its title or link
C2_Witness ==
  /\ Succeeded
  /\ Len(response.leads) >= 10
  /\ \E i \in DOMAIN html : Trim(html[i].title) = <<>> \/ ~Truthy(html[i].href)

\* C3: once adapter #1 has returned and the handler has resumed, adapter #2
\* has been called if and only if adapter #1 yielded fewer than 10 leads;
\* it is called at most once and never before adapter #1 has returned.
C3_BingIffFewerThanTen ==
  /\ (Called("ddg_ret") /\ pc # "ddg_returned")
       => (Called("bing_call") <=> Len(duckduckgoLeads) < 10)
  /\ (pc = "bing_fetch" => Len(leads) < 10 /\ leads = duckduckgoLeads)
  /\ \A i \in DOMAIN calls :
       calls[i] = "bing_call"
         => /\ \E j \in 1 .. (i - 1) : calls[j] = "ddg_ret"
            /\ \A j \in DOMAIN calls : calls[j] = "bing_call" => j = i

\* adapter #1 yielded exactly 10 leads and adapter #2 was not called
C3_Witness ==
  /\ Succeeded
  /\ Len(duckduckgoLeads) = 10
  /\ ~Called("bing_call")

\* C4: the generator is called if and only if the adapters together yielded
\* fewer than 5 leads (duplicates counted), and what it returns is appended
\* after the adapters' leads.
C4_DemoIffFewerThanFive ==
  /\ (pc = "done" /\ Ran)
       => /\ Called("demo_call") <=> Len(duckduckgoLeads) + Len(bingLeads) < 5
          /\ Called("demo_ret") => demoLeads # <<>>
          /\ leads = duckduckgoLeads \o bingLeads \o demoLeads
  /\ pc # "done" => ~Called("demo_call") /\ demoLeads = <<>>
  /\ demoLeads # <<>> => Called("demo_ret")

\* the adapters yielded 4 leads and the generator's were appended
C4_Witness ==
  /\ Succeeded
  /\ Len(duckduckgoLeads) + Len(bingLeads) = 4
  /\ Len(duckduckgoLeads) > 0
  /\ Len(bingLeads) > 0
  /\ Called("demo_ret")
  /\ Len(leads) > 4

\* C5: the returned leads hold exactly one entry for each url of the working
\* sequence and no other, and that entry is the last record of the working
\* sequence with that url.
C5_DedupLastWins ==
  Succeeded =>
    /\ \A i \in DOMAIN leads :
         Cardinality({j \in DOMAIN response.leads : response.leads[j].url = leads[i].url}) = 1
    /\ \A j \in DOMAIN response.leads :
         LET same == {i \in DOMAIN leads : leads[i].url = response.leads[j].url}
         IN  /\ same # {}
             /\ response.leads[j] = leads[CHOOSE i \in same : \A k \in same : k <= i]

\* two records of the working sequence share a url and differ, the earlier
\* one from adapter #1 and the later one from adapter #2
C5_Witness ==
  /\ Succeeded
  /\ \E i \in DOMAIN duckduckgoLeads : \E k \in DOMAIN bingLeads :
       /\ duckduckgoLeads[i].url = bingLeads[k].url
       /\ duckduckgoLeads[i] # bingLeads[k]

\* C6: with a non-empty string as industry, whatever fails in the adapters,
\* a failing adapter contributes no lead and the run ends with a success
\* response carrying leads and a provenance tag.
C6_AdapterFailuresAbsorbed ==
  /\ Called("ddg_error") => duckduckgoLeads = <<>>
  /\ Called("bing_error") => bingLeads = <<>>
  /\ (pc = "done" /\ req.json /\ IsString(req.industry) /\ req.industry # <<>>)
       => /\ response.status = 200
          /\ response.error = ""
          /\ response.source \in {"web_scraping", "demo"}
          /\ Len(response.leads) > 0

\* both adapters failed and the run succeeded
C6_Witness ==
  /\ Succeeded
  /\ Called("ddg_error")
  /\ Called("bing_error")

DemoUrl(slug, n) == <<"h","t","t","p","s",":","/","/","e","x","a","m","p","l","e","-">> \o slug \o <<"-">> \o IntToStr(n) \o <<".","c","o","m">>

\* C7: industry "restaurant", no location, both adapters return nothing:
\* the response has source "demo", 8 to 15 leads, and every url is
\* https://example-restaurant-<n>.com.
C7_FallbackScenario ==
  ( /\ pc = "done"
    /\ req.json
    /\ req.industry = <<"r","e","s","t","a","u","r","a","n","t">>
    /\ JsOr(req.location, <<>>) = <<>>
    /\ Called("bing_ret")
    /\ duckduckgoLeads = <<>>
    /\ bingLeads = <<>> )
    => /\ response.status = 200
       /\ response.source = "demo"
       /\ Len(response.leads) >= 8
       /\ Len(response.leads) <= 15
       /\ \A j \in DOMAIN response.leads :
            \E n \in 0 .. 14 : response.leads[j].url = DemoUrl(<<"r","e","s","t","a","u","r","a","n","t">>, n)

\* w is in the language of the email pattern: word/dot/hyphen characters,
\* "@", the same, ".", word characters
IsEmailText(w) ==
  \E a \in 2 .. Len(w) :
    /\ w[a] = "@"
    /\ \A k \in 1 .. (a - 1) : w[k] \in EmailChar
    /\ \E d \in (a + 2) .. (Len(w) - 1) :
         /\ w[d] = "."
         /\ \A k \in (a + 1) .. (d - 1) : w[k] \in EmailChar
         /\ \A k \in (d + 1) .. Len(w) : w[k] \in WordChar

\* w is in the language of the phone pattern: an optional "(", 3 digits, an
\* optional ")", an optional separator, 3 digits, an optional separator,
\* 4 digits
IsPhoneText(w) ==
  \E o1, o2, o3, o4 \in {0, 1} :
    LET d1 == o1
        d2 == d1 + 3 + o2 + o3
        d3 == d2 + 3 + o4
    IN  /\ Len(w) = d3 + 4
        /\ o1 = 1 => w[1] = "("
        /\ \A k \in 1 .. 3 : w[d1 + k] \in Digit
        /\ o2 = 1 => w[d1 + 4] = ")"
        /\ o3 = 1 => w[d1 + 4 + o2] \in PhoneSep
        /\ \A k \in 1 .. 3 : w[d2 + k] \in Digit
        /\ o4 = 1 => w[d2 + 4] \in PhoneSep
        /\ \A k \in 1 .. 4 : w[d3 + k] \in Digit

\* the positions of s where a text of the language starts
EmailStarts(s) ==
  {i \in DOMAIN s : \E j \in i .. Len(s) : IsEmailText(SubSeq(s, i, j))}

PhoneStarts(s) ==
  {i \in DOMAIN s : \E j \in i .. Len(s) : IsPhoneText(SubSeq(s, i, j))}

MinOf(S) == CHOOSE i \in S : \A j \in S : i <= j

\* the contact the claim gives a snippet's lead
ContactAsClaimed(s, contact) ==
  IF EmailStarts(s) # {}
    THEN /\ IsEmailText(contact)
         /\ \E j \in DOMAIN s : contact = SubSeq(s, MinOf(EmailStarts(s)), j)
  ELSE IF PhoneStarts(s) # {}
    THEN /\ IsPhoneText(contact)
         /\ \E j \in DOMAIN s : contact = SubSeq(s, MinOf(PhoneStarts(s)), j)
  ELSE contact = Undefined

InferredLeads == duckduckgoLeads \o bingLeads

\* C8: the contact of an extracted lead is the first email of its snippet if
\* the snippet holds one, else the first phone number if it holds one, else
\* absent; an email wins over a phone number that stands before it.
C8_ContactInference ==
  pc \in {"inferred_ddg", "inferred_bing"} =>
    /\ Len(InferredLeads) = 1
    /\ LET s == Trim(html[1].snippet)
           c == InferredLeads[1].contact
       IN  /\ ContactAsClaimed(s, c)
           /\ s = <<"C","o","n","t","a","c","t"," ","u","s"," ","a","t"," ","s","a","l","e","s","@","e","x","a","m","p","l","e",".","c","o","m"," ","t","o","d","a","y">> => c = <<"s","a","l","e","s","@","e","x","a","m","p","l","e",".","c","o","m">>
           /\ s = <<"C","a","l","l"," ","(","5","5","5",")"," ","1","2","3","-","4","5","6","7"," ","n","o","w">> => c = <<"(","5","5","5",")"," ","1","2","3","-","4","5","6","7">>
           /\ s = <<"F","a","m","i","l","y"," ","o","w","n","e","d"," ","s","i","n","c","e"," ","1","9","8","7">> => c = Undefined

\* a snippet whose phone number stands before its email
C8_Witness ==
  /\ pc \in {"inferred_ddg", "inferred_bing"}
  /\ LET s == Trim(html[1].snippet)
     IN  /\ EmailStarts(s) # {}
         /\ PhoneStarts(s) # {}
         /\ MinOf(PhoneStarts(s)) < MinOf(EmailStarts(s))
         /\ IsEmailText(InferredLeads[1].contact)

\* C9: the working sequence never holds more than 24 leads, so cutting the
\* deduplicated leads to 25 drops none: one lead is returned per url.
C9_WorkingAtMost24 ==
  /\ Len(leads) <= 24
  /\ Len(duckduckgoLeads) <= 20
  /\ Len(bingLeads) <= 15
  /\ Len(demoLeads) <= 15
  /\ Succeeded => Len(response.leads) = Cardinality(Urls(leads))

\* 24 leads are held, all with different urls, and all are returned
C9_Witness ==
  /\ Succeeded
  /\ Len(leads) = 24
  /\ Len(response.leads) = 24

\* C10: a successful run returns at least one lead and the tag
\* "web_scraping", never "demo"; a generator that ran gave at least 8 leads
\* with pairwise different urls.
C10_NeverDemoTag ==
  /\ Succeeded => Len(response.leads) >= 1 /\ response.source = "web_scraping"
  /\ response.source # "demo"
  /\ Called("demo_ret")
       => /\ Len(demoLeads) >= 8
          /\ \A i, j \in DOMAIN demoLeads : demoLeads[i].url = demoLeads[j].url => i = j

\* a successful run whose leads are all synthetic
C10_Witness ==
  /\ Succeeded
  /\ Called("demo_ret")
  /\ duckduckgoLeads = <<>>
  /\ bingLeads = <<>>
  /\ response.leads = demoLeads

====
